---- MODULE Spec2Model ----
(***************************************************************************)
(* Model of the chomp-bot solver core (chomp-bot/src/game.rs) and of the   *)
(* raw-board helpers of the autoplay client (chomp-bot/src/main.rs).       *)
(*                                                                         *)
(*   Spec       PositionTable::new (the recursive dfs, one step per call   *)
(*              and per return) followed by one pick_forced_victory query  *)
(*   SpecCodec  Skyline::encode / Skyline::decode applied to an input      *)
(*   SpecPlay   apply_move played from the empty board                     *)
(*   SpecBoard  pick_any_legal and the autoplay move choice on one board   *)
(*   SpecAuto   the autoplay loop of main, choose_move_solver step by step *)
(*   SpecLazy   concurrent callers of pick_forced_victory and the Lazy     *)
(*              cell STRATEGY, interleaved with the dfs build              *)
(*   SpecSolvers  pick_forced_victory and choose_move_solver on the boards *)
(*              of a game played with apply_move                           *)
(*   SpecMoves  sequences of the moves dfs makes on skylines               *)
(*   SpecMemo   calls of choose_move_solver that share one memo            *)
(*   SpecLookup pick_forced_victory on raw five-byte boards               *)
(***************************************************************************)
EXTENDS Integers, Sequences, FiniteSets, TLC

\* ------------------------------------------------------------------------
\* Constants of game.rs
\* ------------------------------------------------------------------------
ROW_COUNT == 5
COL_COUNT == 8
POISON_ROW == ROW_COUNT
POISON_COL == COL_COUNT
TABLE_SIZE == 65536
\* width of usize: trailing_zeros(0) and the shift-overflow rule
USIZE_BITS == 64
\* the payload of the seeded "terminal / no move" entry, Winning(0xFF, 0xFF)
NO_MOVE == 255

\* parts of a skyline given to the codec range over 0..MaxPart
MaxPart == 9

Rows == 1..ROW_COUNT
Cols == 1..COL_COUNT

Pow2(n) == 2 ^ n

\* BIT_TEST[c-1] (game.rs) and M[c-1] (main.rs): the single bit of column c
BIT_TEST(c) == Pow2(COL_COUNT - c)

\* B[c-1] (main.rs): the left-filled mask of columns 1..c
B(c) == 256 - Pow2(COL_COUNT - c)

\* bit of column c (1 = most significant) of a row byte
BitAt(mask, c) == (mask \div BIT_TEST(c)) % 2

\* mask | B[c-1]: columns 1..c are set and the other columns of mask kept
OrPrefix(mask, c) == B(c) + (mask % BIT_TEST(c))

\* u8::leading_ones
RECURSIVE LeadingOnesFrom(_, _)
LeadingOnesFrom(mask, c) ==
    IF c > COL_COUNT \/ BitAt(mask, c) = 0 THEN 0
    ELSE 1 + LeadingOnesFrom(mask, c + 1)

LeadingOnes(mask) == LeadingOnesFrom(mask, 1)

\* usize::trailing_zeros
RECURSIVE TrailingZerosNZ(_)
TrailingZerosNZ(n) == IF n % 2 = 1 THEN 0 ELSE 1 + TrailingZerosNZ(n \div 2)

TrailingZeros(n) == IF n = 0 THEN USIZE_BITS ELSE TrailingZerosNZ(n)

Max(a, b) == IF a >= b THEN a ELSE b

\* ------------------------------------------------------------------------
\* Skyline::encode / Skyline::decode
\* ------------------------------------------------------------------------

\* the for_each closure of encode, from part i on
RECURSIVE EncodeFrom(_, _, _, _)
EncodeFrom(s, i, idx, trailing) ==
    IF i > ROW_COUNT THEN idx * Pow2(trailing)
    ELSE IF trailing > s[i]
         THEN EncodeFrom(s, i + 1, (idx * Pow2(trailing - s[i])) * 2 + 1, s[i])
         ELSE EncodeFrom(s, i + 1, idx * 2 + 1, trailing)

\* mutant of encode: the ceiling starts one too low
encodeLowCeiling(s) == EncodeFrom(s, 1, 0, COL_COUNT - 1)

encode(s) == EncodeFrom(s, 1, 0, COL_COUNT)

Builds == {"debug", "release"}

DecodeOk(rows) == [ok |-> TRUE, rows |-> rows]
DecodePanic == [ok |-> FALSE, rows |-> <<>>]

\* the while loop of decode; cursor is the 0-based index of the code, and
\* cursor -= 1 at 0 panics (overflow check in debug, bounds check after the
\* wrap in release)
RECURSIVE DecodeLoop(_, _, _, _)
DecodeLoop(encoded, rows, zeros_seen, cursor) ==
    IF encoded = 0 THEN DecodeOk(rows)
    ELSE IF encoded % 2 = 1
         THEN IF cursor = 0 THEN DecodePanic
              ELSE DecodeLoop(encoded \div 2,
                              [rows EXCEPT ![cursor] = rows[cursor + 1] + zeros_seen],
                              0, cursor - 1)
         ELSE DecodeLoop(encoded \div 2, rows, zeros_seen + 1, cursor)

\* mutant of decode: the trailing zeros are shifted out but not the 1-bit
\* that closes the last row
decodeInShortShift(encoded, build) ==
    LET last == TrailingZeros(encoded)
        rows0 == [i \in Rows |-> IF i = ROW_COUNT THEN last ELSE 0]
    IN  IF last >= USIZE_BITS THEN DecodePanic
        ELSE DecodeLoop(encoded \div Pow2(last), rows0, 0, ROW_COUNT - 1)

\* decode under one build profile: `encoded >>= rows[4] + 1` with a shift of
\* USIZE_BITS or more panics in a debug build and is masked in a release build
decodeIn(encoded, build) ==
    LET last == TrailingZeros(encoded)
        rows0 == [i \in Rows |-> IF i = ROW_COUNT THEN last ELSE 0]
        shift == last + 1
    IN  IF shift >= USIZE_BITS
        THEN IF build = "debug" THEN DecodePanic
             ELSE DecodeLoop(encoded \div Pow2(shift % USIZE_BITS), rows0, 0, ROW_COUNT - 1)
        ELSE DecodeLoop(encoded \div Pow2(shift), rows0, 0, ROW_COUNT - 1)

\* decode of an index both builds agree on (every index the table uses)
decode(encoded) == decodeIn(encoded, "release")

IsValidSkyline(s) ==
    /\ \A i \in Rows : s[i] \in 0..COL_COUNT
    /\ \A i \in 1..(ROW_COUNT - 1) : s[i] >= s[i + 1]

\* ------------------------------------------------------------------------
\* State
\* ------------------------------------------------------------------------
VARIABLES
    book,       \* PositionTable.book: index -> Classified, for the slots written
                \* so far; every other slot of the array holds Unexplored
    stack,      \* the call stack of dfs, innermost call last
    tpc,        \* "build" while PositionTable::new runs, then "done", "queried"
    qboard,     \* the board handed to pick_forced_victory
    qreply,     \* what pick_forced_victory returned for qboard
    cin,        \* SpecCodec: the input, a skyline or an integer
    cval,       \* SpecCodec: the value the codec produced last
    csteps,     \* SpecCodec: number of codec calls made
    board,      \* SpecPlay / SpecBoard: the raw board, five row bytes
    bpc,        \* SpecBoard: "fetched", then what was done with the board
    anyLegal,   \* SpecBoard: result of pick_any_legal(board)
    solved,     \* SpecBoard: result of choose_move_solver(board, memo)
    chosen,     \* SpecBoard: the move (r, c) the autoplay loop chose for board
    memo,       \* the memo table of choose_move_solver
    apc,        \* SpecAuto: position of the autoplay loop
    moves_sent, \* SpecAuto: the counter moves_sent of the autoplay loop
    nsent,      \* SpecAuto: number of calls of send_move made so far
    polls,      \* SpecAuto: number of loop iterations started
    init_if_missing, \* SpecAuto: the flag --init_if_missing
    sent,       \* SpecAuto: the move last handed to send_move
    sentOn,     \* SpecAuto: the fetched board that move was chosen on, if any
    sstack,     \* SpecAuto: the call stack of choose_move_solver, innermost last
    sres,       \* SpecAuto: what the outermost choose_move_solver call returned
    cell,       \* SpecLazy: state of the STRATEGY cell: "uninit", "running", "ready"
    callers,    \* SpecLazy: how many callers of pick_forced_victory are where
    builds,     \* SpecLazy: number of times PositionTable::new was started
    waited,     \* SpecLazy: some caller arrived while PositionTable::new ran
    pos,        \* SpecMoves: the skyline the moves of dfs are played on
    plies,      \* SpecMoves: number of moves played
    ncalls      \* SpecMemo: number of choose_move_solver calls made on the memo

vars ==
    <<book, stack, tpc, qboard, qreply, cin, cval, csteps,
      board, bpc, anyLegal, solved, chosen, memo,
      apc, moves_sent, nsent, polls, init_if_missing, sent, sentOn,
      sstack, sres, cell, callers, builds, waited, pos, plies, ncalls>>

tableVars == <<book, stack, tpc, qboard, qreply>>
codecVars == <<cin, cval, csteps>>
boardVars == <<board, bpc, anyLegal, solved, chosen, memo>>
autoVars ==
    <<apc, moves_sent, nsent, polls, init_if_missing, sent, sentOn, sstack, sres>>
lazyVars == <<cell, callers, builds, waited>>
movesVars == <<pos, plies>>
restVars == <<lazyVars, movesVars, ncalls>>

\* Option<(u8, u8)>
None == [some |-> FALSE, r |-> 0, c |-> 0]
Some(r, c) == [some |-> TRUE, r |-> r, c |-> c]

\* a board of five row bytes
EmptyBoard == [i \in Rows |-> 0]
NoBoard == <<>>

\* ------------------------------------------------------------------------
\* Classified and the Position Table
\* ------------------------------------------------------------------------
\* enum Classified, one number per value: Unexplored, Losing, and Winning(r, c)
\* with its two u8 payloads packed after the tag
Unexplored == 0
Losing == 1
Winning(r, c) == 2 + r * 256 + c

IsWinning(e) == e >= 2
ReplyRow(e) == (e - 2) \div 256
ReplyCol(e) == (e - 2) % 256

\* the two seeded indices, 0b1111100000000 and 0b1111010000000
IDX_ALL_EATEN == 7936
IDX_GLASS_ONLY == 7808
\* the root of the dfs, 0b11111
IDX_ROOT == 31

\* book[idx] of the TABLE_SIZE-slot array
BookAt(bk, idx) == IF idx \in DOMAIN bk THEN bk[idx] ELSE Unexplored

\* book[idx] = v
BookSet(bk, idx, v) == (idx :> v) @@ bk

\* the successor with the filled rows set to c instead of raised to c
SuccessorAssign(snapshot, r, c) ==
    [i \in Rows |-> IF i <= r + 1 THEN c ELSE snapshot[i]]

\* the successor skyline of dfs: rows 0..=r raised to at least c
Successor(snapshot, r, c) ==
    [i \in Rows |-> IF i <= r + 1 THEN Max(snapshot[i], c) ELSE snapshot[i]]

EndPos == [r |-> ROW_COUNT, c |-> 0]

\* first iteration of the two nested for loops at or after row r0
FirstPos(snapshot, r0) ==
    LET cand == {r \in r0..(ROW_COUNT - 1) : snapshot[r + 1] + 1 <= COL_COUNT}
    IN  IF cand = {} THEN EndPos
        ELSE LET r == CHOOSE x \in cand : \A y \in cand : x <= y
             IN  [r |-> r, c |-> snapshot[r + 1] + 1]

\* the iteration after (r, c)
NextPos(snapshot, r, c) ==
    IF c < COL_COUNT THEN [r |-> r, c |-> c + 1] ELSE FirstPos(snapshot, r + 1)

\* lines 103-108 of dfs for a call that passes the Unexplored guard: the
\* decoded snapshot and the first iteration of the loops
Frame(idx) ==
    LET p == FirstPos(decode(idx).rows, 0)
    IN  [idx |-> idx, r |-> p.r, c |-> p.c, found_response |-> FALSE]

\* let snapshot = Skyline::decode(idx), a local of the call
Snapshot(f) == decode(f.idx).rows

Top == stack[Len(stack)]
Pop == SubSeq(stack, 1, Len(stack) - 1)
SetTop(f) == [stack EXCEPT ![Len(stack)] = f]

\* index of the successor the frame's current iteration looks at
NextIdxOf(snapshot, f) == encode(Successor(snapshot, f.r, f.c))
NextIdx(f) == NextIdxOf(Snapshot(f), f)

\* mutant of Visit: the reply is recorded when the successor is Winning
VisitWinningHit(bk, f, snapshot, next_idx) ==
    LET hit == IsWinning(BookAt(bk, next_idx))
        p == NextPos(snapshot, f.r, f.c)
    IN  [book |-> IF hit THEN BookSet(bk, f.idx, Winning(f.r, f.c)) ELSE bk,
         frame |-> [f EXCEPT !.r = p.r, !.c = p.c,
                             !.found_response = hit \/ f.found_response]]

\* mutant of Visit: the loops break at the first Losing successor
VisitBreak(bk, f, snapshot, next_idx) ==
    LET hit == BookAt(bk, next_idx) = Losing
        p == IF hit THEN EndPos ELSE NextPos(snapshot, f.r, f.c)
    IN  [book |-> IF hit THEN BookSet(bk, f.idx, Winning(f.r, f.c)) ELSE bk,
         frame |-> [f EXCEPT !.r = p.r, !.c = p.c,
                             !.found_response = hit \/ f.found_response]]

\* mutant of Visit: a reply once recorded is kept
VisitKeepFirst(bk, f, snapshot, next_idx) ==
    LET hit == BookAt(bk, next_idx) = Losing
        p == NextPos(snapshot, f.r, f.c)
    IN  [book |-> IF hit /\ ~f.found_response
                  THEN BookSet(bk, f.idx, Winning(f.r, f.c)) ELSE bk,
         frame |-> [f EXCEPT !.r = p.r, !.c = p.c,
                             !.found_response = hit \/ f.found_response]]

\* mutant of Visit: the reply is written to the entry of the successor
VisitWritesSuccessor(bk, f, snapshot, next_idx) ==
    LET hit == BookAt(bk, next_idx) = Losing
        p == NextPos(snapshot, f.r, f.c)
    IN  [book |-> IF hit THEN BookSet(bk, next_idx, Winning(f.r, f.c)) ELSE bk,
         frame |-> [f EXCEPT !.r = p.r, !.c = p.c,
                             !.found_response = hit \/ f.found_response]]

\* one loop iteration whose successor next_idx is classified (lines 122-125
\* and the loop increment): record the reply if the successor is Losing, go on
Visit(bk, f, snapshot, next_idx) ==
    LET hit == BookAt(bk, next_idx) = Losing
        p == NextPos(snapshot, f.r, f.c)
    IN  [book |-> IF hit THEN BookSet(bk, f.idx, Winning(f.r, f.c)) ELSE bk,
         frame |-> [f EXCEPT !.r = p.r, !.c = p.c,
                             !.found_response = hit \/ f.found_response]]

\* the loops of one dfs call, run until they end or reach a successor that
\* is still Unexplored
RECURSIVE RunLoopOn(_, _, _)
RunLoopOn(bk, f, snapshot) ==
    IF f.r = ROW_COUNT THEN [book |-> bk, frame |-> f]
    ELSE LET next_idx == NextIdxOf(snapshot, f)
         IN  IF BookAt(bk, next_idx) = Unexplored THEN [book |-> bk, frame |-> f]
             ELSE LET v == Visit(bk, f, snapshot, next_idx)
                  IN  RunLoopOn(v.book, v.frame, snapshot)

RunLoop(bk, f) == RunLoopOn(bk, f, Snapshot(f))

\* PositionTable::new with the root call made on the skyline (1,0,0,0,0)
InitTableLateRoot ==
    /\ book = (IDX_ALL_EATEN :> Winning(NO_MOVE, NO_MOVE)) @@ (IDX_GLASS_ONLY :> Losing)
    /\ stack = <<Frame(encode(<<1, 0, 0, 0, 0>>))>>
    /\ tpc = "build"
    /\ qboard = NoBoard
    /\ qreply = None

\* PositionTable::new up to the call dfs(0b11111, &mut book)
InitTable ==
    /\ book = (IDX_ALL_EATEN :> Winning(NO_MOVE, NO_MOVE)) @@ (IDX_GLASS_ONLY :> Losing)
    /\ stack = <<Frame(IDX_ROOT)>>
    /\ tpc = "build"
    /\ qboard = NoBoard
    /\ qreply = None

\* what is left of PositionTable::new when a dfs call returns
AfterReturn(rest) == IF rest = <<>> THEN "done" ELSE "build"

\* dfs runs its loops up to a successor that is Unexplored and calls
\* dfs(next_idx, book), which passes the guard, decodes and starts its loops
DfsCall ==
    /\ tpc = "build" /\ stack # <<>>
    /\ LET run == RunLoop(book, Top)
       IN  /\ run.frame.r < ROW_COUNT
           /\ book' = run.book
           /\ IF decode(NextIdx(run.frame)).ok
              THEN /\ stack' = Append(SetTop(run.frame), Frame(NextIdx(run.frame)))
                   /\ tpc' = tpc
              ELSE /\ stack' = SetTop(run.frame)
                   /\ tpc' = "panic"
    /\ UNCHANGED <<qboard, qreply>>

\* mutant of DfsReturn: Losing is written whether or not a reply was found
DfsReturnAlwaysLosing ==
    /\ tpc = "build" /\ stack # <<>>
    /\ LET run == RunLoop(book, Top)
       IN  /\ run.frame.r = ROW_COUNT
           /\ book' = BookSet(run.book, run.frame.idx, Losing)
    /\ stack' = Pop
    /\ tpc' = AfterReturn(Pop)
    /\ UNCHANGED <<qboard, qreply>>

\* dfs runs its loops to the end, writes Losing if no reply was found and
\* returns to its caller (the same loop iteration of the calling dfs)
DfsReturn ==
    /\ tpc = "build" /\ stack # <<>>
    /\ LET run == RunLoop(book, Top)
       IN  /\ run.frame.r = ROW_COUNT
           /\ book' = IF run.frame.found_response THEN run.book
                      ELSE BookSet(run.book, run.frame.idx, Losing)
    /\ stack' = Pop
    /\ tpc' = AfterReturn(Pop)
    /\ UNCHANGED <<qboard, qreply>>

\* bitmask_to_skyline
bitmask_to_skyline(b) == [i \in Rows |-> LeadingOnes(b[i])]

\* mutant of best_reply: the terminal marker is returned like any reply
best_reply_with_marker(skyline) ==
    LET e == BookAt(book, encode(skyline))
    IN  IF IsWinning(e) THEN Some(ReplyRow(e), ReplyCol(e)) ELSE None

\* PositionTable::best_reply on the table built so far
best_reply(skyline) ==
    LET e == BookAt(book, encode(skyline))
    IN  IF IsWinning(e) /\ e # Winning(NO_MOVE, NO_MOVE)
        THEN Some(ReplyRow(e), ReplyCol(e)) ELSE None

\* mutant of pick_forced_victory: the 0-based row is returned as it is
pick_forced_victory_row0(b) ==
    LET m == best_reply(bitmask_to_skyline(b))
    IN  IF m.some THEN Some(m.r, m.c) ELSE None

pick_forced_victory(b) ==
    LET m == best_reply(bitmask_to_skyline(b))
    IN  IF m.some THEN Some(m.r + 1, m.c) ELSE None

\* rows that are eaten-prefix masks
PrefixMasks == {0} \cup {B(c) : c \in Cols}
PrefixBoards == [Rows -> PrefixMasks]

\* one call of pick_forced_victory once STRATEGY is built
Query ==
    /\ tpc = "done"
    /\ \E b \in PrefixBoards :
          /\ qboard' = b
          /\ qreply' = pick_forced_victory(b)
    /\ tpc' = "queried"
    /\ UNCHANGED <<book, stack>>

\* ------------------------------------------------------------------------
\* SpecCodec: encode and decode applied in turn to an input
\* ------------------------------------------------------------------------
NoValue == [kind |-> "none", sky |-> <<>>, idx |-> 0]
Sky(s) == [kind |-> "sky", sky |-> s, idx |-> 0]
Idx(n) == [kind |-> "idx", sky |-> <<>>, idx |-> n]
Panicked == [kind |-> "panic", sky |-> <<>>, idx |-> 0]

\* number of codec calls made on one input
MaxCodecCalls == 2

SkyInputs == [Rows -> 0..MaxPart]
IdxInputs == 0..(TABLE_SIZE - 1)

IdleTable ==
    /\ book = <<>> /\ stack = <<>> /\ tpc = "idle" /\ qboard = NoBoard /\ qreply = None

IdleCodec == cin = NoValue /\ cval = NoValue /\ csteps = 0

InitCodec ==
    /\ \/ \E s \in SkyInputs : cin = Sky(s)
       \/ \E n \in IdxInputs : cin = Idx(n)
    /\ cval = cin
    /\ csteps = 0

\* Skyline::encode on the current value
Encode ==
    /\ cval.kind = "sky" /\ csteps < MaxCodecCalls
    /\ cval' = Idx(encode(cval.sky))
    /\ csteps' = csteps + 1
    /\ UNCHANGED cin

\* Skyline::decode on the current value, in either build
Decode ==
    /\ cval.kind = "idx" /\ csteps < MaxCodecCalls
    /\ \E build \in Builds :
          LET d == decodeIn(cval.idx, build)
          IN  cval' = IF d.ok THEN Sky(d.rows) ELSE Panicked
    /\ csteps' = csteps + 1
    /\ UNCHANGED cin

\* ------------------------------------------------------------------------
\* Raw boards: game.rs (pick_any_legal) and main.rs (the autoplay helpers)
\* ------------------------------------------------------------------------

\* the last column choose_any_safe and choose_move_solver try (1..=7u8)
SAFE_COLS == 7

\* is_glass_only (game.rs) and is_terminal_poison (main.rs)
is_glass_only(b) ==
    (\A i \in 1..(ROW_COUNT - 1) : b[i] = 255) /\ b[ROW_COUNT] = 254

is_terminal_poison(s) ==
    s[1] = 255 /\ s[2] = 255 /\ s[3] = 255 /\ s[4] = 255 /\ s[5] = 254

\* move_is_open (game.rs) and is_legal (main.rs): the row byte and-ed with
\* the single-bit mask of the column is 0, i.e. the cell's bit is clear
move_is_open(b, r, c) == BitAt(b[r], c) = 0

is_legal(s, r, c) == BitAt(s[r], c) = 0

\* apply_move: the left-filled mask B[c-1] is set on rows r..=5
apply_move(s, r, c) ==
    [rr \in Rows |-> IF rr >= r THEN OrPrefix(s[rr], c) ELSE s[rr]]

\* the two for loops of pick_any_legal from (r, c) on: rows 5 down to 1,
\* columns 1..8, the poison cell skipped
RECURSIVE ScanAnyLegal(_, _, _, _)
ScanAnyLegal(b, r, c, skip_poison) ==
    IF r = 0 THEN None
    ELSE IF c > COL_COUNT THEN ScanAnyLegal(b, r - 1, 1, skip_poison)
    ELSE IF skip_poison /\ r = POISON_ROW /\ c = POISON_COL
         THEN ScanAnyLegal(b, r, c + 1, skip_poison)
    ELSE IF move_is_open(b, r, c) THEN Some(r, c)
    ELSE ScanAnyLegal(b, r, c + 1, skip_poison)

\* mutant of pick_any_legal: the poison cell is scanned like any other
pick_any_legal_no_skip(b) == ScanAnyLegal(b, ROW_COUNT, 1, FALSE)

pick_any_legal(b) ==
    LET m == ScanAnyLegal(b, ROW_COUNT, 1, TRUE)
    IN  IF m.some THEN m
        ELSE IF move_is_open(b, POISON_ROW, POISON_COL)
             THEN Some(POISON_ROW, POISON_COL) ELSE None

\* the loops of choose_any_safe from (r, c) on: rows 5 down to 1, columns
\* 1..last
RECURSIVE ScanAnySafe(_, _, _, _)
ScanAnySafe(s, r, c, last) ==
    IF r = 0 THEN None
    ELSE IF c > last THEN ScanAnySafe(s, r - 1, 1, last)
    ELSE IF is_legal(s, r, c) THEN Some(r, c)
    ELSE ScanAnySafe(s, r, c + 1, last)

\* mutant of choose_any_safe: column 8 is scanned too
choose_any_safe_all_cols(s) == ScanAnySafe(s, ROW_COUNT, 1, COL_COUNT)

choose_any_safe(s) == ScanAnySafe(s, ROW_COUNT, 1, SAFE_COLS)

\* HashMap<[u8; 5], (bool, Option<(u8, u8)>)>
NoMemo == <<>>
\* a memo entry that records every position as lost
MemoEntryLost(win, mv) == [win |-> FALSE, mv |-> mv]
MemoEntry(win, mv) == [win |-> win, mv |-> mv]
MemoInsert(m, s, e) == (s :> e) @@ m

\* the k-th cell (k = 0, 1, ..) the solver's loops look at: rows 5 down to
\* 1, columns 1..7
SolverRow(k) == ROW_COUNT - (k \div SAFE_COLS)
SolverCol(k) == (k % SAFE_COLS) + 1
SolverEnd == ROW_COUNT * SAFE_COLS

\* the first cell at or after the k-th that passes `if !is_legal { continue }`:
\* in the row of the k-th cell if one is left there, else in the deepest row
\* above it that has an unset cell in columns 1..7 (a byte below 0xFE)
NextLegal(s, k) ==
    LET r0 == SolverRow(k)
        here == {c \in SolverCol(k)..SAFE_COLS : is_legal(s, r0, c)}
        above == {r \in 1..(r0 - 1) : s[r] < 254}
        Least(S) == CHOOSE x \in S : \A y \in S : x <= y
        Most(S) == CHOOSE x \in S : \A y \in S : x >= y
    IN  IF k >= SolverEnd THEN SolverEnd
        ELSE IF here # {} THEN (ROW_COUNT - r0) * SAFE_COLS + Least(here) - 1
        ELSE IF above = {} THEN SolverEnd
        ELSE (ROW_COUNT - Most(above)) * SAFE_COLS
                + Least({c \in 1..SAFE_COLS : is_legal(s, Most(above), c)}) - 1

\* choose_move_solver: the result and the memo it leaves behind
RECURSIVE choose_move_solver(_, _), SolverLoop(_, _, _)
choose_move_solver(s, m) ==
    IF s \in DOMAIN m
    THEN [mv |-> IF m[s].win THEN m[s].mv ELSE None, memo |-> m]
    ELSE IF is_terminal_poison(s)
         THEN [mv |-> None, memo |-> MemoInsert(m, s, MemoEntry(FALSE, None))]
         ELSE SolverLoop(s, m, 0)

\* its loops from the k-th cell on
SolverLoop(s, m, k) ==
    LET j == NextLegal(s, k)
        r == SolverRow(j)
        c == SolverCol(j)
    IN  IF j = SolverEnd
        THEN [mv |-> None, memo |-> MemoInsert(m, s, MemoEntry(FALSE, None))]
        ELSE LET opp == choose_move_solver(apply_move(s, r, c), m)
             IN  IF ~opp.mv.some
                 THEN [mv |-> Some(r, c),
                       memo |-> MemoInsert(opp.memo, s, MemoEntry(TRUE, Some(r, c)))]
                 ELSE SolverLoop(s, opp.memo, j + 1)

\* a move (r, c) handed to send_move; (0, 0) is the "no move" sentinel
Move(r, c) == <<r, c>>
NoMove == Move(0, 0)

\* the move choice with a fallback that also takes the cells of column 8
AutoplayChoiceAnyCell(mv, s) ==
    IF mv.some THEN Move(mv.r, mv.c)
    ELSE LET any == choose_any_safe_all_cols(s)
         IN  IF any.some THEN Move(any.r, any.c) ELSE NoMove

\* the move choice of the autoplay loop:
\* choose_move_solver(..).unwrap_or_else(|| choose_any_safe(..).unwrap_or((0, 0)))
AutoplayChoice(mv, s) ==
    IF mv.some THEN Move(mv.r, mv.c)
    ELSE LET any == choose_any_safe(s)
         IN  IF any.some THEN Move(any.r, any.c) ELSE NoMove

\* boards handed in by the Board Source: the last MaxOpenRows rows hold any
\* byte whose columns before the last MaxOpenCols are eaten, the rows above
\* them are eaten whole
MaxOpenRows == 2
MaxOpenCols == 3
RowInputs == (256 - 2 ^ MaxOpenCols)..255
BoardInputs ==
    {b \in [Rows -> RowInputs \cup {255}] :
        \A i \in Rows : i <= ROW_COUNT - MaxOpenRows => b[i] = 255}

IdleBoard ==
    /\ board = NoBoard /\ bpc = "idle" /\ anyLegal = None /\ solved = None
    /\ chosen = NoMove /\ memo = NoMemo

\* SpecPlay: a game played on the raw board from the empty board
InitPlay ==
    /\ board = EmptyBoard /\ bpc = "play" /\ anyLegal = None /\ solved = None
    /\ chosen = NoMove /\ memo = NoMemo

\* one legal move applied to the board
ApplyMove ==
    /\ bpc = "play"
    /\ \E r \in Rows, c \in Cols :
          /\ is_legal(board, r, c)
          /\ board' = apply_move(board, r, c)
    /\ UNCHANGED <<bpc, anyLegal, solved, chosen, memo>>

\* SpecBoard: one board fetched from the Board Source
InitBoard ==
    /\ board \in BoardInputs /\ bpc = "fetched" /\ anyLegal = None /\ solved = None
    /\ chosen = NoMove /\ memo = NoMemo

\* pick_any_legal(board)
PickAnyLegal ==
    /\ bpc = "fetched"
    /\ anyLegal' = pick_any_legal(board)
    /\ bpc' = "any_legal"
    /\ UNCHANGED <<board, solved, chosen, memo>>

\* autoplay, Some(board) with only the glass left: the loop breaks
GameOver ==
    /\ bpc = "fetched"
    /\ is_terminal_poison(board)
    /\ bpc' = "ended"
    /\ UNCHANGED <<board, anyLegal, solved, chosen, memo>>

\* autoplay, Some(board) otherwise: the move is chosen
ChooseMove ==
    /\ bpc = "fetched"
    /\ ~is_terminal_poison(board)
    /\ LET out == choose_move_solver(board, memo)
       IN  /\ solved' = out.mv
           /\ memo' = out.memo
           /\ chosen' = AutoplayChoice(out.mv, board)
    /\ bpc' = "chosen"
    /\ UNCHANGED <<board, anyLegal>>

\* ------------------------------------------------------------------------
\* SpecAuto: the autoplay loop of main
\* ------------------------------------------------------------------------
\* the value of --max_moves (200 unless given) and the number of loop
\* iterations followed
MaxMovesArg == 2
MaxPolls == 3

max_moves == MaxMovesArg

\* boards the Board Source answers with: only the glass left, only column 8
\* left in two rows, a position the solver wins, a position it loses
SentinelBoard == [i \in Rows |-> IF i >= 4 THEN 254 ELSE 255]
WinBoard == [i \in Rows |-> IF i = 5 THEN 252 ELSE 255]
LoseBoard == [i \in Rows |-> IF i = 4 THEN 251 ELSE IF i = 5 THEN 253 ELSE 255]
AutoBoards == {[i \in Rows |-> IF i = 5 THEN 254 ELSE 255], SentinelBoard, WinBoard, LoseBoard}

IdleAuto ==
    /\ apc = "idle" /\ moves_sent = 0 /\ nsent = 0 /\ polls = 0
    /\ init_if_missing = FALSE /\ sent = NoMove /\ sentOn = NoBoard
    /\ sstack = <<>> /\ sres = None

\* main up to the first iteration of the autoplay loop
InitAuto ==
    /\ apc = "poll" /\ moves_sent = 0 /\ nsent = 0 /\ polls = 0
    /\ init_if_missing \in BOOLEAN /\ sent = NoMove /\ sentOn = NoBoard
    /\ sstack = <<>> /\ sres = None
    /\ board = NoBoard /\ bpc = "idle" /\ anyLegal = None /\ solved = None
    /\ chosen = NoMove /\ memo = NoMemo

\* choose_move_solver step by step, one step per call it makes that is not
\* answered at once and one per return; a frame is a call going through its
\* loops: the board s and the cell k its loops have reached
SolverFrame(s) == [s |-> s, k |-> 0]

\* the start of a call on board t with memo m (lines 436-444): the memo hit
\* and the terminal board are answered at once, anything else enters the loops
CallNow(t, m) ==
    IF t \in DOMAIN m
    THEN [known |-> TRUE, mv |-> IF m[t].win THEN m[t].mv ELSE None, memo |-> m]
    ELSE IF is_terminal_poison(t)
         THEN [known |-> TRUE, mv |-> None, memo |-> MemoInsert(m, t, MemoEntry(FALSE, None))]
         ELSE [known |-> FALSE, mv |-> None, memo |-> m]

\* the loops of the call of frame f, run until the call returns ("win" with
\* the move, "lose") or makes a call on board t that enters its own loops
RECURSIVE SolverRun(_, _)
SolverRun(m, f) ==
    LET j == NextLegal(f.s, f.k)
    IN  IF j = SolverEnd
        THEN [status |-> "lose", mv |-> None, frame |-> f, t |-> f.s,
              memo |-> MemoInsert(m, f.s, MemoEntry(FALSE, None))]
        ELSE LET t == apply_move(f.s, SolverRow(j), SolverCol(j))
                 opp == CallNow(t, m)
             IN  IF ~opp.known
                 THEN [status |-> "call", mv |-> None, frame |-> [f EXCEPT !.k = j],
                       t |-> t, memo |-> m]
                 ELSE IF ~opp.mv.some
                 THEN [status |-> "win", mv |-> Some(SolverRow(j), SolverCol(j)),
                       frame |-> [f EXCEPT !.k = j], t |-> t,
                       memo |-> MemoInsert(opp.memo, f.s,
                                           MemoEntry(TRUE, Some(SolverRow(j), SolverCol(j))))]
                 ELSE SolverRun(opp.memo, [f EXCEPT !.k = j + 1])

\* the outermost call choose_move_solver(b, &mut memo) is made
StartSolver(b) ==
    LET now == CallNow(b, memo)
    IN  /\ memo' = now.memo
        /\ sres' = now.mv
        /\ sstack' = IF now.known THEN <<>> ELSE <<SolverFrame(b)>>

\* the innermost call reaches a move whose board is neither in the memo nor
\* terminal and calls choose_move_solver on it
SolverCall ==
    /\ apc \in {"solve", "open"} /\ sstack # <<>>
    /\ LET run == SolverRun(memo, sstack[Len(sstack)])
       IN  /\ run.status = "call"
           /\ memo' = run.memo
           /\ sstack' = Append([sstack EXCEPT ![Len(sstack)] = run.frame],
                               SolverFrame(run.t))
    /\ UNCHANGED <<board, bpc, anyLegal, solved, chosen,
                   apc, moves_sent, nsent, polls, init_if_missing, sent, sentOn, sres>>

\* the innermost call inserts its result in the memo and returns; its caller,
\* if any, goes on in the same loop iteration with that result
SolverReturn ==
    /\ apc \in {"solve", "open"} /\ sstack # <<>>
    /\ LET run == SolverRun(memo, sstack[Len(sstack)])
       IN  /\ run.status \in {"win", "lose"}
           /\ memo' = run.memo
           /\ sres' = IF Len(sstack) = 1 THEN run.mv ELSE sres
    /\ sstack' = SubSeq(sstack, 1, Len(sstack) - 1)
    /\ UNCHANGED <<board, bpc, anyLegal, solved, chosen,
                   apc, moves_sent, nsent, polls, init_if_missing, sent, sentOn>>

\* where the loop goes after send_move returned: main returns on Err; on Ok
\* the run ends when `moves_sent += 1` reached max_moves, else it sleeps and
\* fetches again
AfterSend(sent_ok, count) ==
    IF ~sent_ok THEN "failed" ELSE IF count >= max_moves THEN "ended" ELSE "sleep"

\* fetch_board answers Some(board) with only the glass left: the loop breaks
AutoGameOver ==
    /\ apc = "poll" /\ polls < MaxPolls
    /\ \E b \in AutoBoards :
          /\ is_terminal_poison(b)
          /\ board' = b
    /\ polls' = polls + 1
    /\ apc' = "ended"
    /\ UNCHANGED <<bpc, anyLegal, solved, chosen, memo,
                   moves_sent, nsent, init_if_missing, sent, sentOn, sstack, sres>>

\* fetch_board answers Some(board) otherwise: choose_move_solver is called
AutoFetch ==
    /\ apc = "poll" /\ polls < MaxPolls
    /\ \E b \in AutoBoards :
          /\ ~is_terminal_poison(b)
          /\ board' = b
          /\ StartSolver(b)
    /\ polls' = polls + 1
    /\ apc' = "solve"
    /\ UNCHANGED <<bpc, anyLegal, solved, chosen,
                   moves_sent, nsent, init_if_missing, sent, sentOn>>

\* choose_move_solver has returned: the move is chosen and, unless it is the
\* (0, 0) sentinel, handed to send_move, which returns Ok or Err
AutoSend ==
    /\ apc = "solve" /\ sstack = <<>>
    /\ solved' = sres
    /\ chosen' = AutoplayChoice(sres, board)
    /\ IF AutoplayChoice(sres, board) = NoMove
       THEN /\ apc' = "ended"
            /\ UNCHANGED <<moves_sent, nsent, sent, sentOn>>
       ELSE \E sent_ok \in BOOLEAN :
               /\ sent' = AutoplayChoice(sres, board)
               /\ sentOn' = board
               /\ nsent' = nsent + 1
               /\ moves_sent' = IF sent_ok THEN moves_sent + 1 ELSE moves_sent
               /\ apc' = AfterSend(sent_ok, moves_sent + 1)
    /\ UNCHANGED <<board, bpc, anyLegal, memo, polls, init_if_missing, sstack, sres>>

\* the fetch after the sleep: the loop breaks on None and on a board with
\* only the glass left, and goes round otherwise
AutoRecheck ==
    /\ apc = "sleep"
    /\ \E b2 \in AutoBoards \cup {NoBoard} :
          apc' = IF b2 = NoBoard \/ is_terminal_poison(b2) THEN "ended" ELSE "poll"
    /\ UNCHANGED <<boardVars, moves_sent, nsent, polls, init_if_missing, sent, sentOn,
                   sstack, sres>>

\* fetch_board answers None and init_if_missing is off: the loop breaks
AutoMissing ==
    /\ apc = "poll" /\ polls < MaxPolls
    /\ ~init_if_missing
    /\ polls' = polls + 1
    /\ apc' = "ended"
    /\ UNCHANGED <<boardVars, moves_sent, nsent, init_if_missing, sent, sentOn,
                   sstack, sres>>

\* fetch_board answers None and init_if_missing is on: choose_move_solver is
\* called on the empty board
AutoOpen ==
    /\ apc = "poll" /\ polls < MaxPolls
    /\ init_if_missing
    /\ StartSolver(EmptyBoard)
    /\ polls' = polls + 1
    /\ apc' = "open"
    /\ UNCHANGED <<board, bpc, anyLegal, solved, chosen,
                   moves_sent, nsent, init_if_missing, sent, sentOn>>

\* the opening move on the empty board:
\* choose_move_solver(empty, ..).or_else(|| choose_any_safe(empty)).unwrap_or((5, 1))
OpeningChoice(mv) ==
    IF mv.some THEN Move(mv.r, mv.c)
    ELSE LET any == choose_any_safe(EmptyBoard)
         IN  IF any.some THEN Move(any.r, any.c) ELSE Move(5, 1)

\* the opening move is handed to send_move and the loop goes round
AutoOpenSend ==
    /\ apc = "open" /\ sstack = <<>>
    /\ sent' = OpeningChoice(sres)
    /\ sentOn' = NoBoard
    /\ nsent' = nsent + 1
    /\ \E sent_ok \in BOOLEAN : apc' = IF sent_ok THEN "poll" ELSE "failed"
    /\ UNCHANGED <<boardVars, moves_sent, polls, init_if_missing, sstack, sres>>

\* fetch_board returns Err: main returns the error
AutoFail ==
    /\ apc \in {"poll", "sleep"}
    /\ apc' = "failed"
    /\ UNCHANGED <<boardVars, moves_sent, nsent, polls, init_if_missing, sent, sentOn,
                   sstack, sres>>

\* ------------------------------------------------------------------------
\* STRATEGY: Lazy<PositionTable> and its concurrent callers (SpecLazy)
\* ------------------------------------------------------------------------

\* number of threads that call pick_forced_victory
MaxCallers == 2

\* callers counts the threads by where they are: not yet calling (out),
\* inside the dereference of STRATEGY (forcing), running PositionTable::new
\* for the cell (building), and returned from best_reply (read)
CallersAt(o, f, b, r) == [out |-> o, forcing |-> f, building |-> b, read |-> r]

IdleLazy ==
    /\ cell = "none" /\ callers = CallersAt(0, 0, 0, 0) /\ builds = 0 /\ waited = FALSE

IdleMoves == pos = <<>> /\ plies = 0

IdleRest == IdleLazy /\ IdleMoves /\ ncalls = 0

\* the process before the first dereference of STRATEGY
InitLazy ==
    /\ cell = "uninit" /\ callers = CallersAt(MaxCallers, 0, 0, 0)
    /\ builds = 0 /\ waited = FALSE

\* a dereference returns the table although the cell is still being built
LazyReadyEarly(c) == c # "uninit"

\* a dereference of the Lazy returns the table once the cell holds it
LazyReady(c) == c = "ready"

\* a thread calls pick_forced_victory and dereferences STRATEGY
LazyEnter ==
    /\ callers.out > 0
    /\ callers' = [callers EXCEPT !.out = @ - 1, !.forcing = @ + 1]
    /\ waited' = (waited \/ cell = "running")
    /\ UNCHANGED <<tableVars, cell, builds>>

\* the cell is empty: the dereferencing thread takes the initialisation and
\* starts PositionTable::new
LazyStart ==
    /\ callers.forcing > 0 /\ cell = "uninit"
    /\ cell' = "running"
    /\ callers' = [callers EXCEPT !.forcing = @ - 1, !.building = @ + 1]
    /\ builds' = builds + 1
    /\ UNCHANGED <<tableVars, waited>>

\* PositionTable::new has returned: the cell holds the table and the thread
\* that built it goes on with its dereference
LazyFinish ==
    /\ cell = "running" /\ tpc = "done"
    /\ cell' = "ready"
    /\ callers' = [callers EXCEPT !.building = @ - 1, !.forcing = @ + 1]
    /\ UNCHANGED <<tableVars, builds, waited>>

\* a dereference returns the table and pick_forced_victory answers from it
LazyRead ==
    /\ callers.forcing > 0 /\ LazyReady(cell)
    /\ callers' = [callers EXCEPT !.forcing = @ - 1, !.read = @ + 1]
    /\ qboard' = EmptyBoard
    /\ qreply' = pick_forced_victory(EmptyBoard)
    /\ UNCHANGED <<book, stack, tpc, cell, builds, waited>>

Init == InitTable /\ IdleCodec /\ IdleBoard /\ IdleAuto /\ IdleRest

Next ==
    \/ DfsCall /\ UNCHANGED <<codecVars, boardVars, autoVars, restVars>>
    \/ DfsReturn /\ UNCHANGED <<codecVars, boardVars, autoVars, restVars>>
    \/ Query /\ UNCHANGED <<codecVars, boardVars, autoVars, restVars>>

Spec == Init /\ [][Next]_vars

NextCodec ==
    \/ Encode /\ UNCHANGED <<tableVars, boardVars, autoVars, restVars>>
    \/ Decode /\ UNCHANGED <<tableVars, boardVars, autoVars, restVars>>

InitCodecAll == IdleTable /\ InitCodec /\ IdleBoard /\ IdleAuto /\ IdleRest

SpecCodec == InitCodecAll /\ [][NextCodec]_vars

NextPlay == ApplyMove /\ UNCHANGED <<tableVars, codecVars, autoVars, restVars>>

InitPlayAll == IdleTable /\ IdleCodec /\ InitPlay /\ IdleAuto /\ IdleRest

SpecPlay == InitPlayAll /\ [][NextPlay]_vars

NextBoard ==
    \/ PickAnyLegal /\ UNCHANGED <<tableVars, codecVars, autoVars, restVars>>
    \/ GameOver /\ UNCHANGED <<tableVars, codecVars, autoVars, restVars>>
    \/ ChooseMove /\ UNCHANGED <<tableVars, codecVars, autoVars, restVars>>

InitBoardAll == IdleTable /\ IdleCodec /\ InitBoard /\ IdleAuto /\ IdleRest

SpecBoard == InitBoardAll /\ [][NextBoard]_vars

NextAuto ==
    \/ AutoGameOver /\ UNCHANGED <<tableVars, codecVars, restVars>>
    \/ AutoFetch /\ UNCHANGED <<tableVars, codecVars, restVars>>
    \/ SolverCall /\ UNCHANGED <<tableVars, codecVars, restVars>>
    \/ SolverReturn /\ UNCHANGED <<tableVars, codecVars, restVars>>
    \/ AutoSend /\ UNCHANGED <<tableVars, codecVars, restVars>>
    \/ AutoRecheck /\ UNCHANGED <<tableVars, codecVars, restVars>>
    \/ AutoMissing /\ UNCHANGED <<tableVars, codecVars, restVars>>
    \/ AutoOpen /\ UNCHANGED <<tableVars, codecVars, restVars>>
    \/ AutoOpenSend /\ UNCHANGED <<tableVars, codecVars, restVars>>
    \/ AutoFail /\ UNCHANGED <<tableVars, codecVars, restVars>>

InitAutoAll == IdleTable /\ IdleCodec /\ InitAuto /\ IdleRest

SpecAuto == InitAutoAll /\ [][NextAuto]_vars

\* ------------------------------------------------------------------------
\* pick_forced_victory on raw five-byte boards (SpecLookup)
\* ------------------------------------------------------------------------

\* the bits after the first unset column of a row range over 0..MaxJunk
MaxJunk == 1

\* a row byte: c set columns, column c + 1 unset, then the bits of tail where
\* they fit in the columns that are left
RawRow(c, tail) ==
    IF c < COL_COUNT /\ tail < BIT_TEST(c + 1) THEN B(c) + tail ELSE B(c)

\* the raw boards asked about: any prefix length in any row, in any order,
\* with the same tail bits in every row they fit in
RawBoards ==
    {[i \in Rows |-> RawRow(s[i], tail)] : s \in [Rows -> 0..COL_COUNT], tail \in 0..MaxJunk}

\* one call of pick_forced_victory on a raw board once STRATEGY is built
Lookup ==
    /\ tpc = "done"
    /\ \E b \in RawBoards :
          /\ qboard' = b
          /\ qreply' = pick_forced_victory(b)
    /\ tpc' = "queried"
    /\ UNCHANGED <<book, stack>>

NextLookup ==
    \/ DfsCall /\ UNCHANGED <<codecVars, boardVars, autoVars, restVars>>
    \/ DfsReturn /\ UNCHANGED <<codecVars, boardVars, autoVars, restVars>>
    \/ Lookup /\ UNCHANGED <<codecVars, boardVars, autoVars, restVars>>

SpecLookup == Init /\ [][NextLookup]_vars

\* ------------------------------------------------------------------------
\* The two solvers on one board of a game (SpecSolvers)
\* ------------------------------------------------------------------------

\* the solvers are compared on boards with at most this many unset cells in
\* columns 1..7
MaxCompareCells == 4

SafeMoves(b) == {m \in Rows \X (1..SAFE_COLS) : is_legal(b, m[1], m[2])}

\* on a board of a game played with apply_move from the empty board, both
\* pick_forced_victory (STRATEGY built) and choose_move_solver (fresh memo)
\* are asked for a move
Compare ==
    /\ tpc = "done" /\ bpc = "play"
    /\ Cardinality(SafeMoves(board)) <= MaxCompareCells
    /\ qboard' = board
    /\ qreply' = pick_forced_victory(board)
    /\ LET out == choose_move_solver(board, NoMemo)
       IN  /\ solved' = out.mv
           /\ memo' = out.memo
    /\ tpc' = "compared"
    /\ UNCHANGED <<book, stack, board, bpc, anyLegal, chosen>>

NextSolvers ==
    \/ DfsCall /\ UNCHANGED <<codecVars, boardVars, autoVars, restVars>>
    \/ DfsReturn /\ UNCHANGED <<codecVars, boardVars, autoVars, restVars>>
    \/ tpc = "done" /\ ApplyMove /\ UNCHANGED <<tableVars, codecVars, autoVars, restVars>>
    \/ Compare /\ UNCHANGED <<codecVars, autoVars, restVars>>

InitSolversAll == InitTable /\ IdleCodec /\ InitPlay /\ IdleAuto /\ IdleRest

SpecSolvers == InitSolversAll /\ [][NextSolvers]_vars

\* ------------------------------------------------------------------------
\* Calls of choose_move_solver that share one memo (SpecMemo)
\* ------------------------------------------------------------------------

\* number of calls made on the one memo
MaxSolverCalls == 2

\* the boards of the calls: rows 1..3 eaten, rows 4 and 5 any of these bytes
\* (columns 1..5 eaten and some of columns 6, 7, 8 unset)
MemoRows == {248, 251, 252, 253, 254, 255}
MemoBoards == {b \in [Rows -> MemoRows] : \A i \in 1..(ROW_COUNT - 2) : b[i] = 255}

\* `let mut memo = HashMap::new()` of main, before the first call
InitMemo ==
    /\ board = NoBoard /\ bpc = "memo" /\ anyLegal = None /\ solved = None
    /\ chosen = NoMove /\ memo = NoMemo /\ ncalls = 0

\* one call choose_move_solver(b, &mut memo); bpc tells whether b was in
\* the memo when the call was made
SolverCallOn ==
    /\ bpc \in {"memo", "hit", "miss"} /\ ncalls < MaxSolverCalls
    /\ \E b \in MemoBoards :
          /\ board' = b
          /\ bpc' = IF b \in DOMAIN memo THEN "hit" ELSE "miss"
          /\ LET out == choose_move_solver(b, memo)
             IN  /\ solved' = out.mv
                 /\ memo' = out.memo
    /\ ncalls' = ncalls + 1
    /\ UNCHANGED <<anyLegal, chosen>>

NextMemo ==
    SolverCallOn /\ UNCHANGED <<tableVars, codecVars, autoVars, lazyVars, movesVars>>

InitMemoAll ==
    IdleTable /\ IdleCodec /\ InitMemo /\ IdleAuto /\ IdleLazy /\ IdleMoves

SpecMemo == InitMemoAll /\ [][NextMemo]_vars

\* the steps of PositionTable::new are those of the thread that took the
\* initialisation of the cell
NextLazy ==
    \/ LazyEnter /\ UNCHANGED <<codecVars, boardVars, autoVars, movesVars, ncalls>>
    \/ LazyStart /\ UNCHANGED <<codecVars, boardVars, autoVars, movesVars, ncalls>>
    \/ cell = "running" /\ DfsCall
          /\ UNCHANGED <<codecVars, boardVars, autoVars, restVars>>
    \/ cell = "running" /\ DfsReturn
          /\ UNCHANGED <<codecVars, boardVars, autoVars, restVars>>
    \/ LazyFinish /\ UNCHANGED <<codecVars, boardVars, autoVars, movesVars, ncalls>>
    \/ LazyRead /\ UNCHANGED <<codecVars, boardVars, autoVars, movesVars, ncalls>>

InitLazyAll ==
    InitTable /\ IdleCodec /\ IdleBoard /\ IdleAuto /\ InitLazy /\ IdleMoves /\ ncalls = 0

SpecLazy == InitLazyAll /\ [][NextLazy]_vars

\* ------------------------------------------------------------------------
\* Properties of the finished table (Spec)
\* ------------------------------------------------------------------------
ValidSkylines == {s \in [Rows -> 0..COL_COUNT] : IsValidSkyline(s)}

\* number of 1-bits of n
RECURSIVE PopCount(_)
PopCount(n) == IF n = 0 THEN 0 ELSE (n % 2) + PopCount(n \div 2)

\* n is a string of ROW_COUNT + COL_COUNT bits with exactly ROW_COUNT ones: a
\* monotone lattice path, the form of the encoding of a valid Skyline
IsPathIndex(n) == n < 2 ^ (ROW_COUNT + COL_COUNT) /\ PopCount(n) = ROW_COUNT

\* legal moves of the construction from skyline s: row r in 0..4, column c
\* with s[r] < c <= 8
LegalMoves(s) ==
    {m \in (0..(ROW_COUNT - 1)) \X Cols : m[2] > s[m[1] + 1]}

\* the entry of the skyline reached from s by the move m = <<r, c>>
EntryAfter(s, m) == BookAt(book, encode(Successor(s, m[1], m[2])))

LosingMoves(s) == {m \in LegalMoves(s) : EntryAfter(s, m) = Losing}

\* m1 comes before m2 in the order the loops enumerate moves
Before(m1, m2) == m1[1] < m2[1] \/ (m1[1] = m2[1] /\ m1[2] < m2[2])

IsReply(e) == IsWinning(e) /\ e # Winning(NO_MOVE, NO_MOVE)

\* the stored reply of a Winning entry as a move <<r, c>>
Reply(e) == <<ReplyRow(e), ReplyCol(e)>>

\* C1: once PositionTable::new has completed, every entry Winning(r, c) other
\* than the terminal marker has a stored reply whose successor skyline (rows
\* 0..=r raised to c, from the decoded skyline) is classified Losing.
C1_ReplyLeadsToLosing ==
    tpc = "done" =>
        \A idx \in DOMAIN book :
            IsReply(book[idx]) =>
                /\ decode(idx).ok
                /\ Reply(book[idx]) \in LegalMoves(decode(idx).rows)
                /\ EntryAfter(decode(idx).rows, Reply(book[idx])) = Losing

C1_Witness ==
    /\ tpc = "done"
    /\ IsReply(BookAt(book, IDX_ROOT))
    /\ Cardinality({idx \in DOMAIN book : IsReply(book[idx])}) > 100

\* C2: once PositionTable::new has completed, every legal move from the
\* decoded skyline of a Losing entry leads to an entry that is Winning.
C2_LosingIsSound ==
    tpc = "done" =>
        \A idx \in DOMAIN book :
            book[idx] = Losing =>
                /\ decode(idx).ok
                /\ \A m \in LegalMoves(decode(idx).rows) :
                       IsWinning(EntryAfter(decode(idx).rows, m))

C2_Witness ==
    /\ tpc = "done"
    /\ \E idx \in DOMAIN book :
          /\ book[idx] = Losing
          /\ idx # IDX_GLASS_ONLY
          /\ Cardinality(LegalMoves(decode(idx).rows)) > 8

\* C5 as stated: after construction none of the 65536 slots is Unexplored.
C5_AllSlotsClassified ==
    tpc = "done" => \A i \in 0..(TABLE_SIZE - 1) : BookAt(book, i) # Unexplored

\* C5 amended: after construction a slot is classified (Winning or Losing)
\* exactly when its index is the encoding of a valid Skyline; all the other
\* slots of the 65536 are still Unexplored.
C5_ValidSlotsClassified ==
    tpc = "done" =>
        \A i \in 0..(TABLE_SIZE - 1) :
            (BookAt(book, i) # Unexplored) <=> IsPathIndex(i)

C5_Witness ==
    /\ tpc = "done"
    /\ Cardinality(DOMAIN book) = Cardinality(ValidSkylines)
    /\ BookAt(book, 0) = Unexplored

\* C6 as stated: the stored reply of a Winning entry is the first move, in
\* enumeration order, whose successor is Losing.
C6_ReplyIsFirstLosingMove ==
    tpc = "done" =>
        \A idx \in DOMAIN book :
            IsReply(book[idx]) =>
                LET s == decode(idx).rows
                    m == Reply(book[idx])
                IN  /\ m \in LosingMoves(s)
                    /\ \A o \in LosingMoves(s) : ~Before(o, m)

\* C6 amended: the stored reply of a Winning entry is the last move, in
\* enumeration order (largest row, then largest column), whose successor is
\* Losing: the loops run on after a Losing successor and overwrite the reply.
C6_ReplyIsLastLosingMove ==
    tpc = "done" =>
        \A idx \in DOMAIN book :
            IsReply(book[idx]) =>
                LET s == decode(idx).rows
                    m == Reply(book[idx])
                IN  /\ m \in LosingMoves(s)
                    /\ \A o \in LosingMoves(s) : ~Before(m, o)

C6_Witness ==
    /\ tpc = "done"
    /\ \E idx \in DOMAIN book :
          /\ IsReply(book[idx])
          /\ Cardinality(LosingMoves(decode(idx).rows)) > 1

\* C10: on a board of eaten-prefix rows with a non-increasing skyline, a move
\* returned by pick_forced_victory has row in 1..5, column in 1..8 and names
\* an unset cell; the empty board gets a move, and the board [0xFE; 5] gets a
\* move in column 8.
C10_ForcedVictoryIsLegal ==
    (tpc = "queried" /\ IsValidSkyline(bitmask_to_skyline(qboard))) =>
        /\ qreply.some =>
              /\ qreply.r \in Rows
              /\ qreply.c \in Cols
              /\ BitAt(qboard[qreply.r], qreply.c) = 0
        /\ qboard = EmptyBoard => qreply.some
        /\ qboard = [i \in Rows |-> 254] => (qreply.some /\ qreply.c = COL_COUNT)

C10_Witness ==
    /\ tpc = "queried"
    /\ qboard = [i \in Rows |-> 254]
    /\ qreply.some

\* ------------------------------------------------------------------------
\* Properties of the codec (SpecCodec)
\* ------------------------------------------------------------------------

\* C3: decode(encode(s)) = s for every valid Skyline s (5 parts in 0..8,
\* non-increasing).
C3_RoundTrip ==
    (cin.kind = "sky" /\ IsValidSkyline(cin.sky) /\ csteps = 2) => cval = cin

C3_Witness ==
    /\ cin = Sky(<<8, 6, 4, 2, 0>>)
    /\ csteps = 2
    /\ cval = cin

\* C4 as stated: every n in [0, 65536) decodes without failing and re-encoding
\* the decoded tuple returns n.
C4_EveryIndexRoundTrips ==
    cin.kind = "idx" =>
        /\ csteps = 1 => cval.kind = "sky"
        /\ csteps = 2 => cval = cin

\* C4 amended: an n in [0, 65536) that has exactly five 1-bits and is below
\* 2^13 decodes without failing to a valid Skyline and re-encodes to n; for
\* every other n of the range decode fails or re-encoding the decoded tuple
\* returns an integer other than n.
C4_PathIndexRoundTrips ==
    cin.kind = "idx" =>
        IF IsPathIndex(cin.idx)
        THEN /\ csteps = 1 => (cval.kind = "sky" /\ IsValidSkyline(cval.sky))
             /\ csteps = 2 => cval = cin
        ELSE csteps = 2 => cval # cin

C4_Witness ==
    /\ cin = Idx(IDX_GLASS_ONLY)
    /\ csteps = 2
    /\ cval = cin

\* ------------------------------------------------------------------------
\* Properties of play on the raw board (SpecPlay)
\* ------------------------------------------------------------------------

\* the eaten-prefix length of row i of the board
PrefixLen(i) == LeadingOnes(board[i])

\* C7: on every board reached from the empty board by legal moves
\* of apply_move, the eaten-prefix lengths are non-increasing as the row
\* number increases.
C7_PrefixesNonIncreasing ==
    bpc = "play" => \A i \in 1..(ROW_COUNT - 1) : PrefixLen(i) >= PrefixLen(i + 1)

\* C15: for every board reached from the empty board and every legal move
\* (r, c) in 1-based coordinates, the skyline of apply_move(b, r, c) equals
\* the successor dfs computes for that move, its row index r - 1 and column
\* c, from the skyline of b.
C15_SuccessorAgreesWithApply ==
    [][\A r \in Rows, c \in Cols :
          (bpc = "play" /\ is_legal(board, r, c) /\ board' = apply_move(board, r, c)) =>
              bitmask_to_skyline(board') = Successor(bitmask_to_skyline(board), r - 1, c)]_vars

\* ------------------------------------------------------------------------
\* Properties of one fetched board (SpecBoard)
\* ------------------------------------------------------------------------

\* some cell in one of the columns cols is unset
HasOpen(b, cols) == \E r \in Rows, c \in cols : is_legal(b, r, c)

OptionMove(m) == IF m.some THEN Move(m.r, m.c) ELSE NoMove

OpenCells(b) == {m \in Rows \X Cols : move_is_open(b, m[1], m[2])}
OpenSafeCells(b) == OpenCells(b) \ {<<POISON_ROW, POISON_COL>>}

\* C9: pick_any_legal returns None exactly when no cell is unset, the poison
\* cell (5,8) exactly when it is the only unset cell, and otherwise the unset
\* cell other than the poison cell in the deepest row and, within that row,
\* the leftmost column.
C9_AnyLegalAvoidsPoison ==
    bpc = "any_legal" =>
        /\ ~anyLegal.some <=> OpenCells(board) = {}
        /\ anyLegal = Some(POISON_ROW, POISON_COL)
              <=> OpenCells(board) = {<<POISON_ROW, POISON_COL>>}
        /\ OpenSafeCells(board) # {} =>
              /\ anyLegal.some
              /\ <<anyLegal.r, anyLegal.c>> \in OpenSafeCells(board)
              /\ \A m \in OpenSafeCells(board) :
                     \/ m[1] < anyLegal.r
                     \/ (m[1] = anyLegal.r /\ m[2] >= anyLegal.c)

C9_Witness ==
    /\ bpc = "any_legal"
    /\ move_is_open(board, POISON_ROW, POISON_COL)
    /\ anyLegal.some
    /\ anyLegal.r < POISON_ROW

\* ------------------------------------------------------------------------
\* Properties of the terminal entries (Spec)
\* ------------------------------------------------------------------------
GlassOnlySkyline == [i \in Rows |-> IF i = ROW_COUNT THEN COL_COUNT - 1 ELSE COL_COUNT]
AllEatenSkyline == [i \in Rows |-> COL_COUNT]
GlassOnlyBoard == [i \in Rows |-> IF i = ROW_COUNT THEN 254 ELSE 255]
AllEatenBoard == [i \in Rows |-> 255]

\* C11: throughout and after the construction the entry of the glass-only
\* skyline (8,8,8,8,7) is Losing and the entry of the fully-eaten skyline
\* (8,8,8,8,8) is Winning with the terminal marker; once the table is built
\* best_reply and pick_forced_victory return None for both.
C11_TerminalEntries ==
    /\ tpc \in {"build", "done", "queried"} =>
          /\ BookAt(book, encode(GlassOnlySkyline)) = Losing
          /\ BookAt(book, encode(AllEatenSkyline)) = Winning(NO_MOVE, NO_MOVE)
    /\ tpc \in {"done", "queried"} =>
          /\ best_reply(GlassOnlySkyline) = None
          /\ best_reply(AllEatenSkyline) = None
    /\ (tpc = "queried" /\ qboard \in {GlassOnlyBoard, AllEatenBoard}) =>
          qreply = None

C11_Witness ==
    /\ tpc = "queried"
    /\ qboard = AllEatenBoard
    /\ qreply = None
    /\ Cardinality(DOMAIN book) > 1000

\* ------------------------------------------------------------------------
\* Properties of the codec on out-of-domain input (SpecCodec)
\* ------------------------------------------------------------------------

\* C12: encode applied to a Skyline that is out of domain (a part above 8, or
\* parts that are not non-increasing) fails and returns no table index.
C12_EncodeRejectsOutOfDomain ==
    (cin.kind = "sky" /\ ~IsValidSkyline(cin.sky) /\ csteps = 1) =>
        cval.kind # "idx"

\* ------------------------------------------------------------------------
\* Properties of the autoplay loop (SpecAuto)
\* ------------------------------------------------------------------------

\* C13: in one autoplay run the number of moves handed to send_move never
\* exceeds max_moves.
C13_SendsWithinMaxMoves ==
    apc # "idle" => nsent <= max_moves

\* C19: every move handed to send_move in an autoplay run has row in 1..5
\* and column in 1..7, and is an unset cell of the fetched board it was
\* chosen on.
C19_SentMoveIsSafe ==
    (apc # "idle" /\ nsent > 0) =>
        /\ sent[1] \in Rows
        /\ sent[2] \in 1..SAFE_COLS
        /\ sentOn # NoBoard => is_legal(sentOn, sent[1], sent[2])

C19_Witness ==
    /\ apc = "ended"
    /\ nsent > 1
    /\ sentOn = LoseBoard
    /\ ~solved.some
    /\ sent = chosen

\* the indices whose dfs call is in progress
InProgress(stk) == {stk[k].idx : k \in 1..Len(stk)}

\* C20: while the table is built, dfs starts its work only on an index whose
\* entry is Unexplored and that is not in progress (no index is entered
\* twice), a dfs call that returns leaves an entry other than Unexplored,
\* and the entry of an index that is not in progress, its dfs having
\* returned, is never changed, neither during the build nor after it.
C20_MemoDiscipline ==
    [][IF tpc # "build" THEN book' = book
       ELSE /\ Cardinality(InProgress(stack')) = Len(stack')
            /\ Len(stack') > Len(stack) =>
                  /\ BookAt(book, stack'[Len(stack')].idx) = Unexplored
                  /\ BookAt(book', stack'[Len(stack')].idx) = Unexplored
                  /\ stack'[Len(stack')].idx \notin InProgress(stack)
            /\ Len(stack') < Len(stack) =>
                  BookAt(book', stack[Len(stack)].idx) # Unexplored
            /\ \A idx \in DOMAIN book \ InProgress(stack) :
                  BookAt(book', idx) = book[idx]]_vars

C20_Witness ==
    /\ tpc = "build"
    /\ Cardinality(DOMAIN book) > 1000
    /\ Len(stack) > 2
    /\ \E k \in 1..(Len(stack) - 1) : stack[k].found_response

\* ------------------------------------------------------------------------
\* Properties of the lazily built table (SpecLazy)
\* ------------------------------------------------------------------------

\* C14: with several concurrent callers of pick_forced_victory the Position
\* Table is constructed exactly once, by one thread; callers that arrive
\* during the construction do not return before it completes, and every
\* caller that returned read the completely built table.
C14_BuiltOnceReadComplete ==
    cell # "none" =>
        /\ builds <= 1
        /\ callers.building <= 1
        /\ (callers.building = 1) <=> (cell = "running")
        /\ (cell = "running") => callers.read = 0
        /\ callers.read > 0 =>
              /\ builds = 1
              /\ cell = "ready"
              /\ tpc = "done"
              /\ stack = <<>>
              /\ qreply = pick_forced_victory(qboard)

C14_Witness ==
    /\ callers.read = MaxCallers
    /\ waited
    /\ builds = 1
    /\ qboard = EmptyBoard /\ qreply.some

\* ------------------------------------------------------------------------
\* Properties of the two solvers side by side (SpecSolvers)
\* ------------------------------------------------------------------------

\* C16: on every board reached from the empty board by legal moves,
\* choose_move_solver returns Some exactly when pick_forced_victory returns
\* Some.
C16_SolversAgree ==
    tpc = "compared" => (solved.some <=> qreply.some)

\* ------------------------------------------------------------------------
\* The move graph of dfs (SpecMoves)
\* ------------------------------------------------------------------------

\* moves are counted up to this number
MaxPlies == 41

\* the sum of the prefix lengths of the first n rows of skyline s
RECURSIVE PrefixSum(_, _)
PrefixSum(s, n) == IF n = 0 THEN 0 ELSE s[n] + PrefixSum(s, n - 1)

\* a sequence of moves starts on any valid skyline
InitMoves == pos \in ValidSkylines /\ plies = 0

\* one move of the loops of dfs: row index r, column c above the row's
\* prefix length, and the successor skyline built from them
DfsMove ==
    /\ pos # <<>> /\ plies < MaxPlies
    /\ \E m \in LegalMoves(pos) : pos' = Successor(pos, m[1], m[2])
    /\ plies' = plies + 1

NextMoves ==
    DfsMove /\ UNCHANGED <<tableVars, codecVars, boardVars, autoVars, lazyVars, ncalls>>

InitMovesAll ==
    IdleTable /\ IdleCodec /\ IdleBoard /\ IdleAuto /\ IdleLazy /\ InitMoves /\ ncalls = 0

SpecMoves == InitMovesAll /\ [][NextMoves]_vars

\* C17: every move from a valid skyline leads to a valid skyline, strictly
\* increases the prefix length of at least one row and decreases none, so the
\* sum of the prefix lengths grows with every move and no state recurs; a
\* sequence of moves from any state has at most 40 moves, and moves remain
\* until the fully eaten state is reached.
C17_MovesProgress ==
    [][/\ IsValidSkyline(pos')
       /\ \A i \in Rows : pos'[i] >= pos[i]
       /\ \E i \in Rows : pos'[i] > pos[i]
       /\ PrefixSum(pos', ROW_COUNT) > PrefixSum(pos, ROW_COUNT)
       /\ plies' <= PrefixSum(pos', ROW_COUNT)
       /\ plies' <= ROW_COUNT * COL_COUNT
       /\ (LegalMoves(pos') = {}) <=> (pos' = AllEatenSkyline)]_vars

C17_Witness ==
    plies = ROW_COUNT * COL_COUNT /\ pos = AllEatenSkyline

\* ------------------------------------------------------------------------
\* Properties of the memoized solver (SpecMemo)
\* ------------------------------------------------------------------------

\* C18: in any sequence of choose_move_solver calls that share one memo, a
\* call on board s returns Some((r, c)) only if (r, c) is an unset cell of s
\* with c <= 7 and the solver returns None on apply_move(s, r, c); it returns
\* None only if s is glass-only or the solver returns Some on the board after
\* every unset cell with c <= 7; and the result is what the call returns on
\* an empty memo.
C18_MemoSoundAndTransparent ==
    (bpc \in {"hit", "miss"}) =>
        /\ solved.some =>
              /\ solved.r \in Rows /\ solved.c \in 1..SAFE_COLS
              /\ is_legal(board, solved.r, solved.c)
              /\ ~choose_move_solver(apply_move(board, solved.r, solved.c), memo).mv.some
        /\ ~solved.some =>
              \/ is_terminal_poison(board)
              \/ \A m \in SafeMoves(board) :
                    choose_move_solver(apply_move(board, m[1], m[2]), memo).mv.some
        /\ solved = choose_move_solver(board, NoMemo).mv

C18_Witness ==
    /\ bpc = "hit" /\ ncalls = MaxSolverCalls
    /\ solved.some
    /\ Cardinality(SafeMoves(board)) > 1

\* ------------------------------------------------------------------------
\* Properties of the lookup on raw boards (SpecLookup)
\* ------------------------------------------------------------------------

\* C21: for every five-byte board, also one whose prefix lengths are not
\* non-increasing or whose rows are not prefix masks, the index
\* bitmask_to_skyline(board).encode() that pick_forced_victory reads is below
\* 65536 and its entry is not Unexplored once the table is built.
C21_LookupIsTotal ==
    tpc = "queried" =>
        LET idx == encode(bitmask_to_skyline(qboard))
        IN  /\ idx \in 0..(TABLE_SIZE - 1)
            /\ BookAt(book, idx) # Unexplored
            /\ qreply.some <=>
                  (IsWinning(BookAt(book, idx))
                      /\ BookAt(book, idx) # Winning(NO_MOVE, NO_MOVE))

C21_Witness ==
    /\ tpc = "queried"
    /\ ~IsValidSkyline(bitmask_to_skyline(qboard))
    /\ qboard[1] \notin PrefixMasks
    /\ qboard[ROW_COUNT] = 255
    /\ BookAt(book, encode(bitmask_to_skyline(qboard))) # Unexplored

====
